---- MODULE Spec2Model ----
(***************************************************************************)
(* Model of app.py, the Streamlit "SEO Photo Batcher".                     *)
(*                                                                         *)
(* Conventions                                                             *)
(*   - a date is its proleptic Gregorian ordinal (date.toordinal()), a     *)
(*     datetime is a record [ord, hour, minute, second];                   *)
(*   - a coordinate is an integer number of micro-degrees (1e-6 degree);   *)
(*     the Python float it stands for is the double nearest to it;         *)
(*   - a Python string is a sequence of one-character strings;             *)
(*   - Python's None group key is the empty tuple.                         *)
(***************************************************************************)
EXTENDS Integers, Sequences, FiniteSets, TLC

(***************************************************************************)
(* Bounds of the model.                                                    *)
(***************************************************************************)
\* longest batch offered to the uploader in one script run
MaxBatch == 2
\* the retry counter of the rejection sampler saturates here
MaxTries == 2
\* number of consecutive days the sidebar date inputs are set to
MaxDays == 2
\* number of widget interactions (script reruns the user causes) in a session
MaxRuns == 2

(***************************************************************************)
(* Constants of the program.                                               *)
(***************************************************************************)
SERVICES_LIST ==
  << <<"H", "o", "u", "s", "e", " ", "W", "a", "s", "h">>,
     <<"G", "u", "t", "t", "e", "r", " ", "C", "l", "e", "a", "n", "i", "n", "g">>,
     <<"W", "i", "n", "d", "o", "w", " ", "C", "l", "e", "a", "n", "i", "n", "g">>,
     <<"F", "e", "n", "c", "e", " ", "C", "l", "e", "a", "n", "i", "n", "g">>,
     <<"D", "e", "c", "k", " ", "C", "l", "e", "a", "n", "i", "n", "g">>,
     <<"C", "o", "n", "c", "r", "e", "t", "e", " ", "C", "l", "e", "a", "n", "i", "n", "g">> >>

\* name, latitude, longitude (micro-degrees), in catalogue order
PRESET_LOCATIONS ==
  << [name |-> <<"W", "e", "n", "t", "z", "v", "i", "l", "l", "e", ",", " ", "M", "O">>,
      lat |-> 38812600, lng |-> -90855400],
     [name |-> <<"O", "'", "F", "a", "l", "l", "o", "n", ",", " ", "M", "O">>,
      lat |-> 38810600, lng |-> -90699800],
     [name |-> <<"C", "h", "e", "s", "t", "e", "r", "f", "i", "e", "l", "d", ",", " ", "M", "O">>,
      lat |-> 38663100, lng |-> -90577100],
     [name |-> <<"S", "t", ".", " ", "C", "h", "a", "r", "l", "e", "s", ",", " ", "M", "O">>,
      lat |-> 38788100, lng |-> -90488200],
     [name |-> <<"T", "o", "w", "n", " ", "a", "n", "d", " ", "C", "o", "u", "n", "t", "r", "y", ",", " ", "M", "O">>,
      lat |-> 38646500, lng |-> -90454800],
     [name |-> <<"L", "a", "k", "e", " ", "S", "t", ".", " ", "L", "o", "u", "i", "s", ",", " ", "M", "O">>,
      lat |-> 38790900, lng |-> -90785400],
     [name |-> <<"W", "i", "l", "d", "w", "o", "o", "d", ",", " ", "M", "O">>,
      lat |-> 38582800, lng |-> -90662900],
     [name |-> <<"S", "t", ".", " ", "P", "e", "t", "e", "r", "s", ",", " ", "M", "O">>,
      lat |-> 38799800, lng |-> -90626500],
     [name |-> <<"B", "a", "l", "l", "w", "i", "n", ",", " ", "M", "O">>,
      lat |-> 38593700, lng |-> -90547600],
     [name |-> <<"C", "o", "t", "t", "l", "e", "v", "i", "l", "l", "e", ",", " ", "M", "O">>,
      lat |-> 38746700, lng |-> -90647900],
     [name |-> <<"D", "a", "r", "d", "e", "n", "n", "e", " ", "P", "r", "a", "i", "r", "i", "e", ",", " ", "M", "O">>,
      lat |-> 38792800, lng |-> -90728200],
     [name |-> <<"E", "l", "l", "i", "s", "v", "i", "l", "l", "e", ",", " ", "M", "O">>,
      lat |-> 38593100, lng |-> -90590100],
     [name |-> <<"M", "a", "n", "c", "h", "e", "s", "t", "e", "r", ",", " ", "M", "O">>,
      lat |-> 38591200, lng |-> -90505400],
     [name |-> <<"D", "e", "s", " ", "P", "e", "r", "e", "s", ",", " ", "M", "O">>,
      lat |-> 38601200, lng |-> -90428700],
     [name |-> <<"W", "e", "l", "d", "o", "n", " ", "S", "p", "r", "i", "n", "g", ",", " ", "M", "O">>,
      lat |-> 38712600, lng |-> -90686500],
     [name |-> <<"C", "l", "a", "r", "k", "s", "o", "n", " ", "V", "a", "l", "l", "e", "y", ",", " ", "M", "O">>,
      lat |-> 38638400, lng |-> -90605400],
     [name |-> <<"T", "r", "o", "y", ",", " ", "M", "O">>,
      lat |-> 38979200, lng |-> -90980700],
     [name |-> <<"W", "a", "r", "r", "e", "n", "t", "o", "n", ",", " ", "M", "O">>,
      lat |-> 38813100, lng |-> -91139900],
     [name |-> <<"F", "o", "r", "i", "s", "t", "e", "l", "l", ",", " ", "M", "O">>,
      lat |-> 38817000, lng |-> -90938700] >>

(***************************************************************************)
(* IEEE-754 binary64 arithmetic, as CPython's float performs it.           *)
(*                                                                         *)
(* A natural number of any size is a little-endian sequence of limbs in    *)
(* base 2^15 without leading zero limb.  A non-negative double x is the    *)
(* natural number x * 2^90 (every double the program computes on the       *)
(* modelled inputs is a multiple of 2^-90); a signed double is a record    *)
(* [neg, mag].  Every operation computes the exact result and rounds it    *)
(* to 53 significant bits, ties to even.                                   *)
(***************************************************************************)
LimbBits == 15
LimbBase == 32768
FracLimbs == 6
MantBits == 53

RECURSIVE BNorm(_)
BNorm(a) ==
  IF a = <<>> THEN a
  ELSE IF a[Len(a)] = 0 THEN BNorm(SubSeq(a, 1, Len(a) - 1)) ELSE a

RECURSIVE BFromInt(_)
BFromInt(n) ==
  IF n = 0 THEN <<>> ELSE <<n % LimbBase>> \o BFromInt(n \div LimbBase)

RECURSIVE BToInt(_)
BToInt(a) ==
  IF a = <<>> THEN 0 ELSE a[1] + LimbBase * BToInt(Tail(a))

Limb(a, i) == IF i <= Len(a) THEN a[i] ELSE 0

RECURSIVE BAddC(_, _, _, _)
BAddC(a, b, i, c) ==
  IF i > Len(a) /\ i > Len(b)
  THEN (IF c = 0 THEN <<>> ELSE <<c>>)
  ELSE LET t == Limb(a, i) + Limb(b, i) + c
       IN <<t % LimbBase>> \o BAddC(a, b, i + 1, t \div LimbBase)

BAdd(a, b) == BAddC(a, b, 1, 0)

RECURSIVE BSubC(_, _, _, _)
BSubC(a, b, i, c) ==
  IF i > Len(a) THEN <<>>
  ELSE LET t == Limb(a, i) - Limb(b, i) - c
       IN IF t < 0
          THEN <<t + LimbBase>> \o BSubC(a, b, i + 1, 1)
          ELSE <<t>> \o BSubC(a, b, i + 1, 0)

\* a - b for a >= b
BSub(a, b) == BNorm(BSubC(a, b, 1, 0))

RECURSIVE BCmpFrom(_, _, _)
BCmpFrom(a, b, i) ==
  IF i = 0 THEN 0
  ELSE IF a[i] > b[i] THEN 1
  ELSE IF a[i] < b[i] THEN -1
  ELSE BCmpFrom(a, b, i - 1)

\* -1, 0, 1 as a < b, a = b, a > b
BCmp(a, b) ==
  IF Len(a) > Len(b) THEN 1
  ELSE IF Len(a) < Len(b) THEN -1
  ELSE BCmpFrom(a, b, Len(a))

RECURSIVE BMulC(_, _, _, _)
BMulC(a, k, i, c) ==
  IF i > Len(a) THEN (IF c = 0 THEN <<>> ELSE <<c>>)
  ELSE LET t == a[i] * k + c
       IN <<t % LimbBase>> \o BMulC(a, k, i + 1, t \div LimbBase)

\* a * k for 0 <= k < 2^15
BMulSmall(a, k) == BNorm(BMulC(a, k, 1, 0))

RECURSIVE BDivR(_, _, _, _)
BDivR(a, k, i, r) ==
  IF i = 0 THEN [q |-> <<>>, r |-> r]
  ELSE LET t == r * LimbBase + a[i]
           rest == BDivR(a, k, i - 1, t % k)
       IN [q |-> rest.q \o <<t \div k>>, r |-> rest.r]

\* quotient and remainder of a by k for 0 < k < 2^15
BDivSmall(a, k) ==
  LET res == BDivR(a, k, Len(a), 0)
  IN [q |-> BNorm(res.q), r |-> res.r]

Zeros(n) == [i \in 1..n |-> 0]

BShl(a, n) ==
  IF a = <<>> THEN a
  ELSE BMulSmall(Zeros(n \div LimbBits) \o a, 2 ^ (n % LimbBits))

BShr(a, n) ==
  IF Len(a) <= n \div LimbBits THEN <<>>
  ELSE BDivSmall(SubSeq(a, (n \div LimbBits) + 1, Len(a)), 2 ^ (n % LimbBits)).q

RECURSIVE IntBitLen(_)
IntBitLen(n) == IF n = 0 THEN 0 ELSE 1 + IntBitLen(n \div 2)

BBitLen(a) ==
  IF a = <<>> THEN 0 ELSE (Len(a) - 1) * LimbBits + IntBitLen(a[Len(a)])

BOdd(a) == a # <<>> /\ a[1] % 2 = 1

\* the natural number n scaled to the fixed point
FixFromInt(n) == IF n = 0 THEN <<>> ELSE Zeros(FracLimbs) \o BFromInt(n)

\* int(x) of a non-negative double: truncation
FixTrunc(x) ==
  IF Len(x) <= FracLimbs THEN 0 ELSE BToInt(SubSeq(x, FracLimbs + 1, Len(x)))

\* The double nearest to v + e, where e = 0 when sticky is FALSE and
\* 0 < e < 2^-90 otherwise: round to nearest, ties to even.
Fl(v, sticky) ==
  IF BBitLen(v) <= MantBits THEN v
  ELSE LET sh == BBitLen(v) - MantBits
           q == BShr(v, sh)
           r == BSub(v, BShl(q, sh))
           c == BCmp(r, BShl(<<1>>, sh - 1))
           up == c > 0 \/ (c = 0 /\ (sticky \/ BOdd(q)))
       IN BShl(IF up THEN BAdd(q, <<1>>) ELSE q, sh)

\* x / k for a double x >= 0 and an integer 0 < k < 2^15
FlDivInt(x, k) ==
  LET d == BDivSmall(x, k) IN Fl(d.q, d.r # 0)

\* x * k for a double x >= 0 and an integer 0 <= k < 2^15
FlMulInt(x, k) == Fl(BMulSmall(x, k), FALSE)

FlAdd(x, y) == Fl(BAdd(x, y), FALSE)

\* x - y of two non-negative doubles, as a signed double
FlSub(x, y) ==
  [neg |-> BCmp(x, y) < 0,
   mag |-> Fl(IF BCmp(x, y) < 0 THEN BSub(y, x) ELSE BSub(x, y), FALSE)]

\* x * k of a signed double x and an integer 0 <= k < 2^15
FlScale(x, k) == [neg |-> x.neg, mag |-> FlMulInt(x.mag, k)]

\* int(x) of a signed double: truncation towards zero
IntOf(x) == IF x.neg THEN 0 - FixTrunc(x.mag) ELSE FixTrunc(x.mag)

\* the double a Python literal of g micro-degrees denotes (g >= 0)
FloatOfMicro(g) ==
  LET d1 == BDivSmall(FixFromInt(g), 1000)
      d2 == BDivSmall(d1.q, 1000)
  IN Fl(d2.q, d1.r # 0 \/ d2.r # 0)

\* n / k of two Python ints (true division), n >= 0, 0 < k < 2^15
FloatOfRatio(n, k) == FlDivInt(FixFromInt(n), k)

(***************************************************************************)
(* Coordinate codec.                                                       *)
(***************************************************************************)
\* m = int((deg - d) * 60)
Minutes(deg, d) == FixTrunc(FlMulInt(FlSub(deg, FixFromInt(d)).mag, 60))

\* variant: the minutes are not taken off before the seconds are computed
Seconds_keepmin(deg, d, m) ==
  IntOf(FlScale(FlScale(FlSub(deg, FixFromInt(d)), 3600), 100))

\* int(s) for s = (deg - d - m / 60) * 3600 * 100
Seconds(deg, d, m) ==
  IntOf(FlScale(FlScale(FlSub(FlSub(deg, FixFromInt(d)).mag,
                              FloatOfRatio(m, 60)), 3600), 100))

\* dec_to_dms(deg) for the non-negative double deg
dec_to_dms(deg) ==
  LET d == FixTrunc(deg)
      m == Minutes(deg, d)
  IN << <<d, 1>>, <<m, 1>>, <<Seconds(deg, d, m), 100>> >>

\* round(x, 4) of a non-negative double x, in units of 1e-4: the exact
\* value of x is rounded to four decimals, ties to even
Round4(x) ==
  LET t == BMulSmall(x, 10000)
      n == FixTrunc(t)
      fr == BNorm(SubSeq(t, 1, IF Len(t) < FracLimbs THEN Len(t) ELSE FracLimbs))
      c == BCmp(fr, BShl(<<1>>, FracLimbs * LimbBits - 1))
  IN IF c > 0 \/ (c = 0 /\ n % 2 = 1) THEN n + 1 ELSE n


\* a rational of the metadata block is a pair <<numerator, denominator>>
WellFormedDms(dms_list) ==
  /\ Len(dms_list) >= 3
  /\ \A i \in 1..3 : Len(dms_list[i]) >= 2 /\ dms_list[i][2] # 0

\* decimal = d + (m / 60.0) + (s / 3600.0)
Decimal(d, m, s) == FlAdd(FlAdd(d, FlDivInt(m, 60)), FlDivInt(s, 3600))

\* dms_to_dec(dms_ref, dms_list): [ok |-> FALSE] when the code raises
\* (ZeroDivisionError, IndexError), else the rounded value
dms_to_dec(dms_ref, dms_list) ==
  IF dms_list = <<>> THEN [ok |-> TRUE, neg |-> FALSE, val |-> 0]
  ELSE IF ~WellFormedDms(dms_list) THEN [ok |-> FALSE]
  ELSE [ok |-> TRUE, neg |-> dms_ref \in {"S", "W"},
        val |-> Round4(Decimal(FloatOfRatio(dms_list[1][1], dms_list[1][2]),
                               FloatOfRatio(dms_list[2][1], dms_list[2][2]),
                               FloatOfRatio(dms_list[3][1], dms_list[3][2])))]

(***************************************************************************)
(* Dates and times (datetime, timedelta, strftime).                        *)
(***************************************************************************)
\* date.weekday(): 0 = Monday .. 6 = Sunday
Weekday(ord) == (ord + 6) % 7

Midnight(ord) == [ord |-> ord, hour |-> 0, minute |-> 0, second |-> 0]

SecOfDay(t) == t.hour * 3600 + t.minute * 60 + t.second

\* start + timedelta(seconds = n), n >= 0
AddSeconds(start, n) ==
  LET total == SecOfDay(start) + n
      sod == total % 86400
  IN [ord |-> start.ord + total \div 86400, hour |-> sod \div 3600,
      minute |-> (sod % 3600) \div 60, second |-> sod % 60]

DaysBeforeMonth == <<0, 31, 59, 90, 120, 151, 181, 212, 243, 273, 304, 334>>
DaysInMonth == <<31, 28, 31, 30, 31, 30, 31, 31, 30, 31, 30, 31>>

\* year, month, day of an ordinal (datetime._ord2ymd)
Ord2Ymd(ord) ==
  LET n0 == ord - 1
      n400 == n0 \div 146097
      a == n0 % 146097
      n100 == a \div 36524
      b == a % 36524
      n4 == b \div 1461
      c == b % 1461
      n1 == c \div 365
      n == c % 365
      year == n400 * 400 + 1 + n100 * 100 + n4 * 4 + n1
      leap == n1 = 3 /\ (n4 # 24 \/ n100 = 3)
      mo == (n + 50) \div 32
      pre == DaysBeforeMonth[mo] + (IF mo > 2 /\ leap THEN 1 ELSE 0)
      month == IF pre > n THEN mo - 1 ELSE mo
      before == IF pre > n
                THEN pre - (DaysInMonth[month] + (IF month = 2 /\ leap THEN 1 ELSE 0))
                ELSE pre
  IN IF n1 = 4 \/ n100 = 4
     THEN [year |-> year - 1, month |-> 12, day |-> 31]
     ELSE [year |-> year, month |-> month, day |-> n - before + 1]

Digit(n) == <<"0", "1", "2", "3", "4", "5", "6", "7", "8", "9">>[n + 1]

\* zero-padded two-digit fields of strftime (%m, %d, %H, %M, %S)
Pad2(n) == <<Digit((n \div 10) % 10), Digit(n % 10)>>

RECURSIVE StrfYear(_)
\* %Y: the C library's strftime writes the year without padding
StrfYear(n) ==
  IF n < 10 THEN <<Digit(n)>> ELSE StrfYear(n \div 10) \o <<Digit(n % 10)>>

\* date_obj.strftime("%Y:%m:%d %H:%M:%S")
StrfExif(t) ==
  LET d == Ord2Ymd(t.ord)
  IN StrfYear(d.year) \o <<":">> \o Pad2(d.month) \o <<":">> \o Pad2(d.day) \o <<" ">>
     \o Pad2(t.hour) \o <<":">> \o Pad2(t.minute) \o <<":">> \o Pad2(t.second)

\* date_obj.strftime("%m-%d-%Y")
StrfName(t) ==
  LET d == Ord2Ymd(t.ord)
  IN Pad2(d.month) \o <<"-">> \o Pad2(d.day) \o <<"-">> \o StrfYear(d.year)

(***************************************************************************)
(* get_random_weekday_date.                                                *)
(***************************************************************************)
\* int_delta: the length of end - start in seconds
IntDelta(start, end) ==
  (end.ord - start.ord) * 86400 + (SecOfDay(end) - SecOfDay(start))

\* variant: Saturday passes the test
IsWeekday_sat(res) == Weekday(res.ord) < 6

\* the acceptance test of the rejection loop
IsWeekday(res) == Weekday(res.ord) < 5

\* res.replace(hour = h, minute = mi)
ForceBusinessHours(res, h, mi) == [res EXCEPT !.hour = h, !.minute = mi]

(***************************************************************************)
(* Images.  The bytes of an uploaded file are modelled by what PIL and     *)
(* piexif make of them:                                                    *)
(*   open  TRUE when Image.open succeeds                                   *)
(*   mode  the colour mode of the decoded image                            *)
(*   exif  "none": no metadata block; "bad": piexif.load raises on it;     *)
(*         "ok": it loads                                                  *)
(*   date  the bytes of DateTimeOriginal, <<>> when absent or empty        *)
(*   gps   the GPS directory: a function from tag names to values          *)
(***************************************************************************)
\* Python's None (group key, location)
None == <<>>

\* a byte that is not valid UTF-8
BadByte == "\\xff"

NoDate == <<"N", "o", "D", "a", "t", "e">>

RECURSIVE FirstField(_)
\* s.split(' ')[0]
FirstField(str) ==
  IF str = <<>> \/ Head(str) = " " THEN <<>>
  ELSE <<Head(str)>> \o FirstField(Tail(str))

\* bytes.decode('utf-8') raises
DecodeFails(str) == \E i \in 1..Len(str) : str[i] = BadByte

GpsGet(gps, tag, default) == IF tag \in DOMAIN gps THEN gps[tag] ELSE default

\* the test that decides "no date and no GPS"
IsUngrouped(date_str, lat, lng) == date_str = NoDate /\ lat.val = 0

\* get_original_group_key(image_bytes): None, or <<date_str, lat, lng>> for
\* the string f"{date_str}_{lat}_{lng}"
\* both coordinates are in the GPS directory
HasBoth(gps) == "GPSLatitude" \in DOMAIN gps /\ "GPSLongitude" \in DOMAIN gps

\* lat or lng: 0.0 unless both coordinates are present
GpsCoord(gps, tag, ref_tag, default_ref) ==
  IF HasBoth(gps) THEN dms_to_dec(GpsGet(gps, ref_tag, default_ref), gps[tag])
  ELSE [ok |-> TRUE, neg |-> FALSE, val |-> 0]

\* reading the coordinates raises: a reference that does not decode, a
\* short list, a zero denominator
GpsRaises(gps) ==
  /\ HasBoth(gps)
  /\ \/ GpsGet(gps, "GPSLatitudeRef", "N") = BadByte
     \/ GpsGet(gps, "GPSLongitudeRef", "E") = BadByte
     \/ \E tag \in {"GPSLatitude", "GPSLongitude"} :
          gps[tag] # <<>> /\ ~WellFormedDms(gps[tag])

\* the last two statements: the None test and the formatted key
KeyOf(date_str, lat, lng) ==
  IF IsUngrouped(date_str, lat, lng) THEN None
  ELSE << date_str, [neg |-> lat.neg, val |-> lat.val],
          [neg |-> lng.neg, val |-> lng.val] >>

get_original_group_key(img) ==
  IF ~img.open \/ img.exif # "ok" THEN None
  ELSE IF img.date # <<>> /\ DecodeFails(img.date) THEN None
  ELSE IF GpsRaises(img.gps) THEN None
  ELSE KeyOf(IF img.date # <<>> THEN FirstField(img.date) ELSE NoDate,
             GpsCoord(img.gps, "GPSLatitude", "GPSLatitudeRef", "N"),
             GpsCoord(img.gps, "GPSLongitude", "GPSLongitudeRef", "E"))

(***************************************************************************)
(* process_single_image.                                                   *)
(***************************************************************************)
Letters ==
  {"a", "b", "c", "d", "e", "f", "g", "h", "i", "j", "k", "l", "m",
   "n", "o", "p", "q", "r", "s", "t", "u", "v", "w", "x", "y", "z",
   "A", "B", "C", "D", "E", "F", "G", "H", "I", "J", "K", "L", "M",
   "N", "O", "P", "Q", "R", "S", "T", "U", "V", "W", "X", "Y", "Z"}
Digits == {"0", "1", "2", "3", "4", "5", "6", "7", "8", "9"}

\* c.isalnum() on the ASCII characters
IsAlnum(c) == c \in Letters \cup Digits

\* "".join([c if c.isalnum() else "-" for c in str])
Sanitize(str) == [i \in 1..Len(str) |-> IF IsAlnum(str[i]) THEN str[i] ELSE "-"]

\* "--" in str
HasDoubleDash(str) ==
  \E i \in 1..(Len(str) - 1) : str[i] = "-" /\ str[i + 1] = "-"

RECURSIVE ReplaceOnce(_)
\* str.replace("--", "-"): one left-to-right pass over non-overlapping pairs
ReplaceOnce(str) ==
  IF Len(str) < 2 THEN str
  ELSE IF str[1] = "-" /\ str[2] = "-"
       THEN <<"-">> \o ReplaceOnce(SubSeq(str, 3, Len(str)))
       ELSE <<str[1]>> \o ReplaceOnce(Tail(str))

RECURSIVE Collapse(_)
\* while "--" in str: str = str.replace("--", "-")
Collapse(str) == IF HasDoubleDash(str) THEN Collapse(ReplaceOnce(str)) ELSE str

\* new_filename
ComposeFilename(safe_service, safe_loc, safe_date) ==
  safe_service \o <<"-">> \o safe_loc \o <<"-">> \o safe_date
    \o <<".", "j", "p", "g">>

\* the condition under which the GPS block is filled in
HasLocation(location_data) ==
  DOMAIN location_data # {} /\ location_data.lat # 0

Abs(n) == IF n < 0 THEN 0 - n ELSE n

\* hemisphere reference chosen by sign
HemisphereRef(coord, positive, negative) ==
  IF coord >= 0 THEN positive ELSE negative

\* dec_to_dms(abs(coord))
EncodeDms(coord) == dec_to_dms(FloatOfMicro(Abs(coord)))

\* what is written for one coordinate
EncodeCoord(coord, positive, negative) ==
  [ref |-> HemisphereRef(coord, positive, negative), dms |-> EncodeDms(coord)]

\* exif_dict["GPS"]
GpsBlock(location_data) ==
  IF HasLocation(location_data)
  THEN [GPSLatitudeRef |-> HemisphereRef(location_data.lat, "N", "S"),
        GPSLatitude |-> EncodeDms(location_data.lat),
        GPSLongitudeRef |-> HemisphereRef(location_data.lng, "E", "W"),
        GPSLongitude |-> EncodeDms(location_data.lng)]
  ELSE <<>>

\* piexif.dump raises on a rational it cannot pack as unsigned
DumpFails(gps) ==
  \E tag \in DOMAIN gps \cap {"GPSLatitude", "GPSLongitude"} :
    \E i \in 1..3 : gps[tag][i][1] < 0

\* the modes the JPEG encoder accepts
JpegModes == {"1", "L", "RGB", "RGBX", "CMYK", "YCbCr"}

Raised(what) == [raised |-> TRUE, error |-> what]

\* exif_bytes: None when piexif.dump raised
ExifBytes(datestr, gps) ==
  IF DumpFails(gps) THEN None
  ELSE [DateTime |-> datestr, DateTimeOriginal |-> datestr,
        DateTimeDigitized |-> datestr, GPS |-> gps]

\* img.mode after the conversion of RGBA and P
SavedMode(mode) == IF mode \in {"RGBA", "P"} THEN "RGB" ELSE mode

\* process_single_image(image_bytes, service_name, location_data, date_obj)
process_single_image(img, service_name, location_data, date_obj) ==
  IF ~img.open THEN Raised("UnidentifiedImageError")
  ELSE IF SavedMode(img.mode) \notin JpegModes THEN Raised("OSError")
  ELSE IF DOMAIN location_data = {} THEN Raised("TypeError")
  ELSE [raised |-> FALSE,
        name |-> ComposeFilename(Collapse(Sanitize(service_name)),
                                 Collapse(Sanitize(location_data.name)),
                                 StrfName(date_obj)),
        exif |-> ExifBytes(StrfExif(date_obj), GpsBlock(location_data))]

(***************************************************************************)
(* Inputs the session is driven with.                                      *)
(***************************************************************************)
\* datetime.now().date() of the first script run: Sunday 2024-01-07
Today == 738892

\* the days the sidebar date inputs are set to: from the Saturday before
Days == (Today - 1)..(Today - 2 + MaxDays)

\* the entries of the select boxes the session is explored with
Services == {SERVICES_LIST[1], SERVICES_LIST[2]}

\* the entries of location_list random.choice is explored with
Locations == {PRESET_LOCATIONS[1], PRESET_LOCATIONS[19]}

\* one shoot: same original date, coordinates that agree to four decimals
ShootDate1 == <<"2", "0", "2", "4", ":", "0", "1", ":", "0", "3", " ",
                "1", "0", ":", "0", "0", ":", "0", "0">>
ShootDate2 == <<"2", "0", "2", "4", ":", "0", "1", ":", "0", "3", " ",
                "1", "1", ":", "3", "0", ":", "0", "0">>
OtherDate == <<"2", "0", "2", "4", ":", "0", "1", ":", "0", "4", " ",
               "0", "9", ":", "0", "0", ":", "0", "0">>
ShootGps1 ==
  [GPSLatitudeRef |-> "N", GPSLatitude |-> << <<38, 1>>, <<48, 1>>, <<4536, 100>> >>,
   GPSLongitudeRef |-> "W", GPSLongitude |-> << <<90, 1>>, <<51, 1>>, <<1944, 100>> >>]
ShootGps2 ==
  [GPSLatitudeRef |-> "N", GPSLatitude |-> << <<38, 1>>, <<48, 1>>, <<4540, 100>> >>,
   GPSLongitudeRef |-> "W", GPSLongitude |-> << <<90, 1>>, <<51, 1>>, <<1950, 100>> >>]

Image(open, mode, exif, date, gps) ==
  [open |-> open, mode |-> mode, exif |-> exif, date |-> date, gps |-> gps]

\* the files a user may offer: name, size and content; the last has the
\* identity of the first and another content
FilePool ==
  << [name |-> "a.jpg", size |-> 1, img |-> Image(TRUE, "RGB", "ok", ShootDate1, ShootGps1)],
     [name |-> "b.jpg", size |-> 2, img |-> Image(TRUE, "RGB", "ok", ShootDate2, ShootGps2)],
     [name |-> "e.jpg", size |-> 5, img |-> Image(FALSE, "RGB", "none", <<>>, <<>>)],
     [name |-> "c.jpg", size |-> 3, img |-> Image(TRUE, "P", "ok", OtherDate, <<>>)],
     [name |-> "f.png", size |-> 6, img |-> Image(TRUE, "LA", "none", <<>>, <<>>)],
     [name |-> "a.jpg", size |-> 1, img |-> Image(TRUE, "RGBA", "none", <<>>, <<>>)] >>

\* file_key = f"{uploaded_file.name}_{uploaded_file.size}"
FileKey(file) == <<file.name, file.size>>

DistinctKeys(batch) ==
  \A i, j \in 1..Len(batch) : i # j => FileKey(batch[i]) # FileKey(batch[j])

\* the values of the uploader: at most MaxBatch consecutive files of the
\* pool, no two with the same file key
UploadChoices ==
  {b \in {SubSeq(FilePool, i, j) : i \in 1..Len(FilePool), j \in 0..Len(FilePool)} :
     Len(b) <= MaxBatch /\ DistinctKeys(b)}

\* draws of random.randint(8, 18), random.randint(0, 59) the session is
\* explored with, and of random.randrange(int_delta)
SessionHours == {13}
SessionMinutes == {30}
SessionSeconds == {0, 86400}

\* random.randrange(int_delta) over the draws in seconds
SecondDraws(seconds, int_delta) == {rs \in seconds : rs < int_delta}

(***************************************************************************)
(* State.                                                                  *)
(***************************************************************************)
VARIABLES
  assignments,      \* st.session_state.assignments: file key -> date, loc, service
  group_cache,      \* st.session_state.group_cache: group key -> date, loc
  origin,           \* history: file key -> the group key computed for it and
                    \*          whether its pair was read from the group cache
  uploaded_files,   \* value of the file uploader
  start_date,       \* sidebar date inputs
  end_date,
  default_service,  \* sidebar select box
  pending,          \* a change of one gallery select box not yet applied
  runs,             \* widget interactions so far
  pc,               \* position of the script run
  idx,              \* index of the loop the run is in
  boxes,            \* file keys whose select box this run has rendered
  outputs,          \* file key -> download rendered in this run
  error,            \* exception that ended the run
  gen_pc,           \* get_random_weekday_date: "off", "loop", "returned", "raised"
  gen_start,
  gen_end,
  gen_ret,
  tries,            \* samples the loop has rejected (saturating)
  arg,              \* argument and result of a function applied on its own
  ret,
  phase

sessionVars == <<assignments, group_cache, origin>>
widgetVars == <<uploaded_files, start_date, end_date, default_service>>
runVars == <<pending, runs, pc, idx, boxes, outputs, error>>
genVars == <<gen_pc, gen_start, gen_end, gen_ret, tries>>
fnVars == <<arg, ret, phase>>
vars == <<sessionVars, widgetVars, runVars, genVars, fnVars>>

EmptyMap == <<>>

Put(map, key, value) ==
  [k \in DOMAIN map \cup {key} |-> IF k = key THEN value ELSE map[k]]

NoDatetime == Midnight(1)

GenOff ==
  /\ gen_pc = "off"
  /\ gen_start = NoDatetime
  /\ gen_end = NoDatetime
  /\ gen_ret = NoDatetime
  /\ tries = 0

FnOff == arg = <<>> /\ ret = <<>> /\ phase = "off"

\* the session after the first script run: nothing uploaded
SessionStart ==
  /\ assignments = EmptyMap
  /\ group_cache = EmptyMap
  /\ origin = EmptyMap
  /\ uploaded_files = <<>>
  /\ start_date = Today - 7
  /\ end_date = Today
  /\ default_service = SERVICES_LIST[1]
  /\ pending = None
  /\ runs = 0
  /\ pc = "done"
  /\ idx = 1
  /\ boxes = {}
  /\ outputs = EmptyMap
  /\ error = "none"

Init == SessionStart /\ GenOff /\ FnOff

(***************************************************************************)
(* get_random_weekday_date(start, end), one loop iteration per step.       *)
(***************************************************************************)
CallGenerator(start, end) ==
  /\ gen_pc' = "loop"
  /\ gen_start' = start
  /\ gen_end' = end
  /\ gen_ret' = NoDatetime
  /\ tries' = 0

LeaveGenerator ==
  /\ gen_pc' = "off"
  /\ gen_start' = NoDatetime
  /\ gen_end' = NoDatetime
  /\ gen_ret' = NoDatetime
  /\ tries' = 0

\* random.randrange(int_delta) raises ValueError on an empty range
GenRaise ==
  /\ gen_pc = "loop"
  /\ IntDelta(gen_start, gen_end) <= 0
  /\ gen_pc' = "raised"
  /\ UNCHANGED <<gen_start, gen_end, gen_ret, tries>>
  /\ UNCHANGED <<sessionVars, widgetVars, runVars, fnVars>>

\* the sample falls on a Saturday or Sunday: the loop goes round
GenReject(seconds) ==
  /\ gen_pc = "loop"
  /\ \E rs \in SecondDraws(seconds, IntDelta(gen_start, gen_end)) :
       ~IsWeekday(AddSeconds(gen_start, rs))
  /\ tries' = IF tries < MaxTries THEN tries + 1 ELSE tries
  /\ UNCHANGED <<gen_pc, gen_start, gen_end, gen_ret>>
  /\ UNCHANGED <<sessionVars, widgetVars, runVars, fnVars>>

\* the sample falls on a weekday: hour and minute are overwritten
GenReturn(seconds, hours, minutes) ==
  /\ gen_pc = "loop"
  /\ \E rs \in SecondDraws(seconds, IntDelta(gen_start, gen_end)),
        h \in hours, mi \in minutes :
       LET res == AddSeconds(gen_start, rs)
       IN /\ IsWeekday(res)
          /\ gen_ret' = ForceBusinessHours(res, h, mi)
  /\ gen_pc' = "returned"
  /\ UNCHANGED <<gen_start, gen_end, tries>>
  /\ UNCHANGED <<sessionVars, widgetVars, runVars, fnVars>>

(***************************************************************************)
(* Script runs.  Every interaction with a widget reruns the script from    *)
(* the top with the new widget values; session state persists.             *)
(***************************************************************************)
RunEnded == pc \in {"done", "crashed"}

\* the user touches a widget once the script has run
Interaction ==
  /\ RunEnded
  /\ runs < MaxRuns
  /\ runs' = runs + 1

StartRun ==
  /\ pc' = "assign"
  /\ idx' = 1
  /\ boxes' = {}
  /\ outputs' = EmptyMap
  /\ error' = "none"

SetStartDate ==
  /\ Interaction
  /\ \E d \in Days \ {start_date} : start_date' = d
  /\ StartRun
  /\ pending' = None
  /\ UNCHANGED <<uploaded_files, end_date, default_service>>
  /\ UNCHANGED <<sessionVars, genVars, fnVars>>

SetEndDate ==
  /\ Interaction
  /\ \E d \in Days \ {end_date} : end_date' = d
  /\ StartRun
  /\ pending' = None
  /\ UNCHANGED <<uploaded_files, start_date, default_service>>
  /\ UNCHANGED <<sessionVars, genVars, fnVars>>

SetDefaultService ==
  /\ Interaction
  /\ \E svc \in Services \ {default_service} : default_service' = svc
  /\ StartRun
  /\ pending' = None
  /\ UNCHANGED <<uploaded_files, start_date, end_date>>
  /\ UNCHANGED <<sessionVars, genVars, fnVars>>

Upload ==
  /\ Interaction
  /\ \E batch \in UploadChoices \ {uploaded_files} : uploaded_files' = batch
  /\ StartRun
  /\ pending' = None
  /\ UNCHANGED <<start_date, end_date, default_service>>
  /\ UNCHANGED <<sessionVars, genVars, fnVars>>

\* the user picks another entry in the select box of a rendered photo
SelectService ==
  /\ Interaction
  /\ \E fk \in boxes, svc \in Services :
       /\ svc # assignments[fk].service
       /\ pending' = [file_key |-> fk, service |-> svc]
  /\ StartRun
  /\ UNCHANGED <<sessionVars, widgetVars, genVars, fnVars>>

\* a rerun without a change (refresh, download button)
Refresh ==
  /\ Interaction
  /\ StartRun
  /\ pending' = None
  /\ UNCHANGED <<sessionVars, widgetVars, genVars, fnVars>>

CurrentFile == uploaded_files[idx]

\* variant: the per-file cache is never consulted
AlreadyAssigned_never(file_key) == FALSE

\* "if file_key not in st.session_state.assignments" fails
AlreadyAssigned(file_key) == file_key \in DOMAIN assignments

\* "if origin_group_key and origin_group_key in st.session_state.group_cache"
CacheHit(origin_group_key, cache) ==
  origin_group_key # None /\ origin_group_key \in DOMAIN cache

\* variant: the fresh pair is not saved for the group
StoreGroup_forget(cache, origin_group_key, pair) == cache

\* the group cache after a fresh pair was generated for origin_group_key
StoreGroup(cache, origin_group_key, pair) ==
  IF origin_group_key # None THEN Put(cache, origin_group_key, pair) ELSE cache

NewAssignment(pair) ==
  [date |-> pair.date, loc |-> pair.loc, service |-> default_service]

AssignSkip ==
  /\ pc = "assign"
  /\ idx <= Len(uploaded_files)
  /\ AlreadyAssigned(FileKey(CurrentFile))
  /\ idx' = idx + 1
  /\ UNCHANGED <<pending, runs, pc, boxes, outputs, error>>
  /\ UNCHANGED <<sessionVars, widgetVars, genVars, fnVars>>

AssignReuse ==
  /\ pc = "assign"
  /\ idx <= Len(uploaded_files)
  /\ ~AlreadyAssigned(FileKey(CurrentFile))
  /\ \E key \in {get_original_group_key(CurrentFile.img)} :
        /\ CacheHit(key, group_cache)
        /\ assignments' = Put(assignments, FileKey(CurrentFile),
                              NewAssignment(group_cache[key]))
        /\ origin' = Put(origin, FileKey(CurrentFile), [key |-> key, reused |-> TRUE])
  /\ idx' = idx + 1
  /\ UNCHANGED <<group_cache, pending, runs, pc, boxes, outputs, error>>
  /\ UNCHANGED <<widgetVars, genVars, fnVars>>

AssignGenerate ==
  /\ pc = "assign"
  /\ idx <= Len(uploaded_files)
  /\ ~AlreadyAssigned(FileKey(CurrentFile))
  /\ ~CacheHit(get_original_group_key(CurrentFile.img), group_cache)
  /\ CallGenerator(Midnight(start_date), Midnight(end_date))
  /\ pc' = "generate"
  /\ UNCHANGED <<pending, runs, idx, boxes, outputs, error>>
  /\ UNCHANGED <<sessionVars, widgetVars, fnVars>>

\* the generator returned: random.choice, group cache, assignment
AssignStore ==
  /\ pc = "generate"
  /\ gen_pc = "returned"
  /\ \E loc \in Locations :
     \E key \in {get_original_group_key(CurrentFile.img)},
        pair \in {[date |-> gen_ret, loc |-> loc]} :
          /\ group_cache' = StoreGroup(group_cache, key, pair)
          /\ assignments' = Put(assignments, FileKey(CurrentFile), NewAssignment(pair))
          /\ origin' = Put(origin, FileKey(CurrentFile), [key |-> key, reused |-> FALSE])
  /\ LeaveGenerator
  /\ pc' = "assign"
  /\ idx' = idx + 1
  /\ UNCHANGED <<pending, runs, boxes, outputs, error>>
  /\ UNCHANGED <<widgetVars, fnVars>>

\* the generator raised: the exception ends the run
AssignAbort ==
  /\ pc = "generate"
  /\ gen_pc = "raised"
  /\ LeaveGenerator
  /\ pc' = "crashed"
  /\ error' = "ValueError"
  /\ UNCHANGED <<pending, runs, idx, boxes, outputs>>
  /\ UNCHANGED <<sessionVars, widgetVars, fnVars>>

\* end of the assignment loop
EnterGallery ==
  /\ pc = "assign"
  /\ idx > Len(uploaded_files)
  /\ pc' = "gallery"
  /\ idx' = 1
  /\ UNCHANGED <<pending, runs, boxes, outputs, error>>
  /\ UNCHANGED <<sessionVars, widgetVars, genVars, fnVars>>

\* value of the select box of file_key
SelectedService(file_key) ==
  IF pending # None /\ pending.file_key = file_key
  THEN pending.service
  ELSE assignments[file_key].service

\* variant: the service is written to every file
OverrideService_all(asg, file_key, new_service) ==
  [g \in DOMAIN asg |-> [asg[g] EXCEPT !.service = new_service]]

\* st.session_state.assignments[file_key]['service'] = new_service
OverrideService(asg, file_key, new_service) ==
  [asg EXCEPT ![file_key].service = new_service]

\* st.image cannot decode the file: the exception ends the run
GalleryImageError ==
  /\ pc = "gallery"
  /\ idx <= Len(uploaded_files)
  /\ ~CurrentFile.img.open
  /\ pc' = "crashed"
  /\ error' = "UnidentifiedImageError"
  /\ UNCHANGED <<pending, runs, idx, boxes, outputs>>
  /\ UNCHANGED <<sessionVars, widgetVars, genVars, fnVars>>

\* the select box differs from the stored service: store it and st.rerun()
GalleryOverride ==
  /\ pc = "gallery"
  /\ idx <= Len(uploaded_files)
  /\ CurrentFile.img.open
  /\ LET fk == FileKey(CurrentFile)
     IN /\ SelectedService(fk) # assignments[fk].service
        /\ assignments' = OverrideService(assignments, fk, SelectedService(fk))
  /\ pending' = None
  /\ StartRun
  /\ UNCHANGED runs
  /\ UNCHANGED <<group_cache, origin>>
  /\ UNCHANGED <<widgetVars, genVars, fnVars>>

\* process_single_image and the download button of one photo
GalleryProcess ==
  /\ pc = "gallery"
  /\ idx <= Len(uploaded_files)
  /\ CurrentFile.img.open
  /\ LET fk == FileKey(CurrentFile)
         data == assignments[fk]
     IN /\ SelectedService(fk) = data.service
        /\ boxes' = boxes \cup {fk}
        /\ \E out \in {process_single_image(CurrentFile.img, SelectedService(fk),
                                             data.loc, data.date)} :
             IF out.raised
             THEN /\ pc' = "crashed"
                  /\ error' = out.error
                  /\ UNCHANGED <<idx, outputs>>
             ELSE /\ outputs' = Put(outputs, fk, out)
                  /\ idx' = idx + 1
                  /\ UNCHANGED <<pc, error>>
  /\ UNCHANGED <<pending, runs>>
  /\ UNCHANGED <<sessionVars, widgetVars, genVars, fnVars>>

\* end of the script
GalleryDone ==
  /\ pc = "gallery"
  /\ idx > Len(uploaded_files)
  /\ pc' = "done"
  /\ UNCHANGED <<pending, runs, idx, boxes, outputs, error>>
  /\ UNCHANGED <<sessionVars, widgetVars, genVars, fnVars>>

Next ==
  \/ SetStartDate
  \/ SetEndDate
  \/ SetDefaultService
  \/ Upload
  \/ SelectService
  \/ Refresh
  \/ AssignSkip
  \/ AssignReuse
  \/ AssignGenerate
  \/ GenRaise
  \/ GenReject(SessionSeconds)
  \/ GenReturn(SessionSeconds, SessionHours, SessionMinutes)
  \/ AssignStore
  \/ AssignAbort
  \/ EnterGallery
  \/ GalleryImageError
  \/ GalleryOverride
  \/ GalleryProcess
  \/ GalleryDone

Spec == Init /\ [][Next]_vars

(***************************************************************************)
(* get_random_weekday_date on its own, over ranges whose bounds need not   *)
(* be midnights, with every hour and minute random.randint can draw.       *)
(***************************************************************************)
\* number of consecutive days the bounds of the range are drawn from
MaxSpan == 3

GenTimes ==
  {[ord |-> d, hour |-> t[1], minute |-> t[2], second |-> t[3]] :
     d \in (Today - 2)..(Today - 3 + MaxSpan),
     t \in {<<0, 0, 0>>, <<17, 45, 30>>}}

GenSeconds == {d * 86400 + sec : d \in 0..MaxSpan, sec \in {0, 22470, 86399}}

InitGen ==
  /\ SessionStart
  /\ FnOff
  /\ gen_pc = "loop"
  /\ gen_start \in GenTimes
  /\ gen_end \in GenTimes
  /\ gen_ret = NoDatetime
  /\ tries = 0

NextGen ==
  \/ GenRaise
  \/ GenReject(GenSeconds)
  \/ GenReturn(GenSeconds, 8..18, 0..59)

SpecGen == InitGen /\ [][NextGen]_vars

(***************************************************************************)
(* Properties of the session (specification Spec).                         *)
(***************************************************************************)
Pair(rec) == [date |-> rec.date, loc |-> rec.loc]

\* C1: assigned files whose original group key is the same non-null value
\* hold the same (timestamp, location) pair, the one stored under that key
\* in the group cache; a file with a null key never reads the cache, and of
\* the files of one key exactly the first got a freshly generated pair.
C1_GroupSharesPair ==
  /\ \A f, g \in DOMAIN assignments :
       (origin[f].key = origin[g].key /\ origin[f].key # None)
         => /\ Pair(assignments[f]) = Pair(assignments[g])
            /\ origin[f].key \in DOMAIN group_cache
            /\ group_cache[origin[f].key] = Pair(assignments[f])
  /\ \A f \in DOMAIN assignments : origin[f].key = None => ~origin[f].reused
  /\ \A f \in DOMAIN assignments :
       origin[f].key # None
         => Cardinality({g \in DOMAIN assignments :
                           origin[g].key = origin[f].key /\ ~origin[g].reused}) = 1

\* two files of one shoot share a pair read from the cache while a file of
\* another key holds a different pair
C1_Witness ==
  \E f, g, h \in DOMAIN assignments :
    /\ f # g
    /\ origin[f].key # None
    /\ origin[f].key = origin[g].key
    /\ origin[g].reused
    /\ origin[h].key # origin[f].key
    /\ Pair(assignments[h]) # Pair(assignments[f])

\* C2: once a file identity is in the per-file cache its timestamp and
\* location never change, and a script run that meets it again in the
\* assignment loop changes neither cache.
C2_IdempotentReentry ==
  [][ /\ \A fk \in DOMAIN assignments :
           /\ fk \in DOMAIN assignments'
           /\ assignments'[fk].date = assignments[fk].date
           /\ assignments'[fk].loc = assignments[fk].loc
      /\ (pc = "assign" /\ idx <= Len(uploaded_files)
            /\ FileKey(CurrentFile) \in DOMAIN assignments)
           => (assignments' = assignments /\ group_cache' = group_cache) ]_vars

\* a later run has passed over an identity assigned earlier from other
\* content: the pool's last file has the name and size of its first
C2_Witness ==
  /\ pc = "gallery"
  /\ \E i \in 1..Len(uploaded_files) :
       /\ uploaded_files[i] = FilePool[Len(FilePool)]
       /\ origin[FileKey(uploaded_files[i])].key # None

\* C3: overriding the service of one file changes only that file's service:
\* its timestamp and location, every other file's assignment and the group
\* cache stay as they were.
C3_OverrideFrame ==
  [][ (pc = "gallery" /\ assignments' # assignments)
        => /\ group_cache' = group_cache
           /\ DOMAIN assignments' = DOMAIN assignments
           /\ \A g \in DOMAIN assignments :
                /\ assignments'[g].date = assignments[g].date
                /\ assignments'[g].loc = assignments[g].loc
                /\ g # FileKey(CurrentFile) => assignments'[g] = assignments[g] ]_vars

\* two files of one group carry different services and still the group's pair
C3_Witness ==
  \E f, g \in DOMAIN assignments :
    /\ f # g
    /\ origin[f].key # None
    /\ origin[f].key = origin[g].key
    /\ assignments[f].service # assignments[g].service
    /\ Pair(assignments[f]) = Pair(assignments[g])
    /\ group_cache[origin[f].key] = Pair(assignments[f])

\* some instant of [start, end) falls on a Monday to Friday
RangeHasWeekday(start, end) ==
  /\ IntDelta(start, end) > 0
  /\ \E d \in start.ord..AddSeconds(start, IntDelta(start, end) - 1).ord :
       Weekday(d) < 5

\* C7: on a range with end <= start or without a Monday-to-Friday day the
\* generator fails instead of going round its loop, and a run that ends
\* in that failure stores no assignment for the file being processed.
C7_FailsInsteadOfLooping ==
  /\ tries > 0 => RangeHasWeekday(gen_start, gen_end)
  /\ (pc = "crashed" /\ error = "ValueError")
       => FileKey(CurrentFile) \notin DOMAIN assignments

\* the files of the batch that can be decoded and re-encoded
Processable(file) ==
  file.img.open /\ (file.img.mode \in JpegModes \cup {"RGBA", "P"})

\* C8: a file that cannot be decoded or re-encoded is skipped and every
\* other file of the batch is still assigned and processed to an output.
C8_FailuresIsolated ==
  (RunEnded /\ error # "ValueError")
    => \A i \in 1..Len(uploaded_files) :
         Processable(uploaded_files[i])
           => /\ FileKey(uploaded_files[i]) \in DOMAIN assignments
              /\ FileKey(uploaded_files[i]) \in DOMAIN outputs

(***************************************************************************)
(* Properties of get_random_weekday_date (specification SpecGen).          *)
(***************************************************************************)
\* C4: every timestamp the generator returns falls on a Monday to Friday
\* and has its hour in 8..18 and its minute in 0..59.
C4_WeekdayBusinessHours ==
  gen_pc = "returned"
    => /\ Weekday(gen_ret.ord) \in 0..4
       /\ gen_ret.hour \in 8..18
       /\ gen_ret.minute \in 0..59

\* returned after a weekend sample was rejected, from a start off midnight
C4_Witness ==
  /\ gen_pc = "returned"
  /\ tries > 0
  /\ SecOfDay(gen_start) # 0
  /\ gen_ret.hour = 18
  /\ gen_ret.minute = 59

(***************************************************************************)
(* The functions applied on their own: arg holds the arguments, ret the    *)
(* result, phase the call that comes next.                                 *)
(***************************************************************************)
\* get_original_group_key on two images
CallGroupKey ==
  /\ phase = "group_key"
  /\ ret' = <<get_original_group_key(arg[1]), get_original_group_key(arg[2])>>
  /\ phase' = "done"
  /\ UNCHANGED arg
  /\ UNCHANGED <<sessionVars, widgetVars, runVars, genVars>>

CallProcess ==
  /\ phase = "process"
  /\ ret' = process_single_image(arg.img, arg.service, arg.location, arg.date)
  /\ phase' = "done"
  /\ UNCHANGED arg
  /\ UNCHANGED <<sessionVars, widgetVars, runVars, genVars>>

\* the writer's side of the codec: reference by sign, dec_to_dms(abs(...))
CallEncode ==
  /\ phase = "encode"
  /\ ret' = [lat |-> EncodeCoord(arg.lat, "N", "S"),
             lng |-> EncodeCoord(arg.lng, "E", "W")]
  /\ phase' = "decode"
  /\ UNCHANGED arg
  /\ UNCHANGED <<sessionVars, widgetVars, runVars, genVars>>

\* the reader's side: dms_to_dec on what was written
CallDecode ==
  /\ phase = "decode"
  /\ ret' = [lat |-> ret.lat, lng |-> ret.lng,
             declat |-> dms_to_dec(ret.lat.ref, ret.lat.dms),
             declng |-> dms_to_dec(ret.lng.ref, ret.lng.dms)]
  /\ phase' = "done"
  /\ UNCHANGED arg
  /\ UNCHANGED <<sessionVars, widgetVars, runVars, genVars>>

(***************************************************************************)
(* Coordinate round trip (specification SpecCodec).                        *)
(***************************************************************************)
\* intervals the coordinate grid divides each axis into
GridSteps == 23

\* offsets (micro-degrees) around the four-decimal rounding points
Offsets == {0, 1, 49, 50, 51, 99}

\* grid of |coordinate| up to limit: the regular grid, zero, the limit,
\* values on minute and second boundaries, and their neighbours
Magnitudes(limit) ==
  {m \in {b + o : b \in {k * (limit \div GridSteps) : k \in 0..GridSteps}
                          \cup {0, 50000, 38050000, 38125000, 38812600, limit},
                  o \in Offsets} : m <= limit}

Signed(mags) == mags \cup {0 - m : m \in mags}

LatGrid == Signed(Magnitudes(90000000))
LngGrid == Signed(Magnitudes(180000000))

\* a coordinate pair varies one axis over its grid, the other over a sample
InitCodec ==
  /\ SessionStart
  /\ GenOff
  /\ arg \in {[lat |-> la, lng |-> lo] : la \in LatGrid, lo \in {0, -90855400, 180000000}}
          \cup {[lat |-> la, lng |-> lo] : la \in {0, 38812600, -90000000}, lo \in LngGrid}
  /\ ret = <<>>
  /\ phase = "encode"

NextCodec == CallEncode \/ CallDecode

SpecCodec == InitCodec /\ [][NextCodec]_vars

\* a decoded coordinate in micro-degrees
DecodedMicro(dec) == (IF dec.neg THEN 0 - dec.val ELSE dec.val) * 100

\* C6: encoding a latitude or longitude (reference by sign, dec_to_dms of
\* the absolute value) and decoding it with dms_to_dec gives a value within
\* 1e-4 degrees of the original, and the encoded minutes are in 0..59.
C6_RoundTrip ==
  /\ phase \in {"decode", "done"}
       => /\ ret.lat.dms[2][1] \in 0..59
          /\ ret.lng.dms[2][1] \in 0..59
  /\ phase = "done"
       => /\ ret.declat.ok /\ ret.declng.ok
          /\ Abs(DecodedMicro(ret.declat) - arg.lat) <= 100
          /\ Abs(DecodedMicro(ret.declng) - arg.lng) <= 100

\* a southern latitude with degrees, minutes and seconds all nonzero, just
\* short of a rounding point, has made the round trip
C6_Witness ==
  /\ phase = "done"
  /\ arg.lat < 0
  /\ Abs(arg.lat) % 100 = 49
  /\ \A i \in 1..3 : ret.lat.dms[i][1] > 0
  /\ ret.lat.ref = "S"
  /\ ret.declat.neg

(***************************************************************************)
(* Filenames (specification SpecName).                                     *)
(***************************************************************************)
\* longest service string drawn from the alphabet
MaxLen == 3

NameAlphabet == {"a", "7", "-", "!"}

RECURSIVE Strings(_)
\* the strings over the alphabet of length at most n
Strings(n) ==
  IF n = 0 THEN {<<>>}
  ELSE LET shorter == Strings(n - 1)
       IN shorter \cup {Append(str, c) : str \in shorter, c \in NameAlphabet}

ServiceSamples ==
  Strings(MaxLen) \cup {SERVICES_LIST[i] : i \in 1..Len(SERVICES_LIST)}
    \cup {<<"H", "o", "u", "s", "e", " ", "W", "a", "s", "h", "!", "!">>}

LocationNameSamples ==
  {PRESET_LOCATIONS[i].name : i \in 1..Len(PRESET_LOCATIONS)}
    \cup {<<"S", "t", ".", " ", "L", "o", "u", "i", "s", ",", " ", "M", "O">>, <<>>, <<"-", "a">>, <<"a", "!">>}

PlainImage == Image(TRUE, "RGB", "none", <<>>, <<>>)

\* 2024-01-05 09:05:00
SampleDate == [ord |-> 738890, hour |-> 9, minute |-> 5, second |-> 0]

InitName ==
  /\ SessionStart
  /\ GenOff
  /\ arg \in {[img |-> PlainImage, service |-> svc,
               location |-> [name |-> n, lat |-> 38812600, lng |-> -90855400],
               date |-> SampleDate] :
                svc \in ServiceSamples, n \in LocationNameSamples}
  /\ ret = <<>>
  /\ phase = "process"

SpecName == InitName /\ [][CallProcess]_vars

EndsWithJpg(str) ==
  Len(str) >= 4 /\ SubSeq(str, Len(str) - 3, Len(str)) = <<".", "j", "p", "g">>

\* C5: the filename composed by process_single_image contains no two
\* consecutive '-' characters and ends in '.jpg'.
C5_NoDoubleDash ==
  (phase = "done" /\ ~ret.raised)
    => (~HasDoubleDash(ret.name) /\ EndsWithJpg(ret.name))

(***************************************************************************)
(* Metadata written (specification SpecExif).                              *)
(***************************************************************************)
ExifImages ==
  {Image(TRUE, mode, "none", <<>>, <<>>) : mode \in {"RGB", "RGBA", "P", "L", "LA"}}
    \cup {Image(FALSE, "RGB", "none", <<>>, <<>>)}

ExifLocations ==
  {None} \cup
  {[name |-> PRESET_LOCATIONS[1].name, lat |-> la, lng |-> lo] :
     la \in {0, 1, -1, 38812600, -38812600, 90000000, -90000000},
     lo \in {0, 1, -1, -90855400, 90855400, 180000000, -180000000}}

InitExif ==
  /\ SessionStart
  /\ GenOff
  /\ arg \in {[img |-> im, service |-> SERVICES_LIST[1], location |-> loc,
               date |-> SampleDate] : im \in ExifImages, loc \in ExifLocations}
  /\ ret = <<>>
  /\ phase = "process"

SpecExif == InitExif /\ [][CallProcess]_vars

GpsTags == {"GPSLatitudeRef", "GPSLatitude", "GPSLongitudeRef", "GPSLongitude"}

\* C10: the metadata process_single_image writes has a GPS block with
\* latitude and longitude and both references whenever a location is
\* supplied, latitude 0 and longitude 0 included, omits the block only when
\* the location is null, and never holds one coordinate without the other.
C10_GpsBlockComplete ==
  (phase = "done" /\ ~ret.raised /\ ret.exif # None)
    => LET tags == DOMAIN ret.exif.GPS
       IN /\ DOMAIN arg.location # {} => tags = GpsTags
          /\ tags = {} => DOMAIN arg.location = {}
          /\ "GPSLatitude" \in tags <=> "GPSLongitude" \in tags

(***************************************************************************)
(* Group keys (specification SpecKey).                                     *)
(***************************************************************************)
Dms(d, m, s100) == << <<d, 1>>, <<m, 1>>, <<s100, 100>> >>

Gps(latRef, lat, lngRef, lng) ==
  [GPSLatitudeRef |-> latRef, GPSLatitude |-> lat,
   GPSLongitudeRef |-> lngRef, GPSLongitude |-> lng]

KeyDates == {<<>>, ShootDate1, ShootDate2, OtherDate, <<"2", "0", BadByte>>}

KeyGps ==
  { <<>>,
    [GPSLatitudeRef |-> "N", GPSLatitude |-> Dms(38, 48, 4536)],
    ShootGps1,
    ShootGps2,
    Gps("S", Dms(38, 48, 4536), "E", Dms(90, 51, 1944)),
    Gps("N", Dms(0, 0, 0), "W", Dms(90, 51, 1944)),
    Gps("N", Dms(0, 0, 0), "E", Dms(0, 0, 0)),
    Gps("N", Dms(0, 0, 17), "E", Dms(0, 0, 17)),
    Gps("N", Dms(38, 48, 4536), "E", Dms(0, 0, 0)),
    Gps("N", Dms(38, 48, 4536), "W", Dms(0, 0, 0)),
    Gps("N", << <<38, 1>>, <<48, 1>>, <<4536, 0>> >>, "W", Dms(90, 51, 1944)),
    Gps("N", << <<38, 1>>, <<48, 1>> >>, "W", Dms(90, 51, 1944)) }

KeyImages ==
  {Image(TRUE, "RGB", "ok", d, g) : d \in KeyDates, g \in KeyGps}
    \cup {Image(TRUE, "RGB", "none", <<>>, <<>>),
          Image(TRUE, "RGB", "bad", <<>>, <<>>),
          Image(FALSE, "RGB", "none", <<>>, <<>>)}

InitKey ==
  /\ SessionStart
  /\ GenOff
  /\ arg \in KeyImages \X KeyImages
  /\ ret = <<>>
  /\ phase = "group_key"

SpecKey == InitKey /\ [][CallGroupKey]_vars

\* what the claim reads off an image: whether its block parses, its date
\* portion, and its coordinate rounded to four decimals (absent: zero)
BlockParses(img) ==
  /\ img.open
  /\ img.exif = "ok"
  /\ ~DecodeFails(img.date)
  /\ ("GPSLatitude" \in DOMAIN img.gps /\ "GPSLongitude" \in DOMAIN img.gps)
       => (WellFormedDms(img.gps["GPSLatitude"]) /\ WellFormedDms(img.gps["GPSLongitude"]))

DatePortion(img) == IF img.date = <<>> THEN <<>> ELSE FirstField(img.date)

SignedVal(dec) == IF dec.neg THEN 0 - dec.val ELSE dec.val

RoundedCoord(img) ==
  IF "GPSLatitude" \in DOMAIN img.gps /\ "GPSLongitude" \in DOMAIN img.gps
  THEN << SignedVal(dms_to_dec(GpsGet(img.gps, "GPSLatitudeRef", "N"), img.gps["GPSLatitude"])),
          SignedVal(dms_to_dec(GpsGet(img.gps, "GPSLongitudeRef", "E"), img.gps["GPSLongitude"])) >>
  ELSE <<0, 0>>

NullExpected(img) ==
  ~BlockParses(img) \/ (img.date = <<>> /\ RoundedCoord(img) = <<0, 0>>)

\* C9: get_original_group_key returns null exactly when the image has no or
\* an unparseable metadata block, or when the date is absent and latitude
\* and longitude are absent or zero; two images with keys have equal keys
\* exactly when date portion and rounded latitude and longitude agree.
C9_KeyNullExactlyWhen ==
  phase = "done"
    => /\ \A i \in 1..2 : (ret[i] = None) <=> NullExpected(arg[i])
       /\ (ret[1] # None /\ ret[2] # None)
            => ((ret[1] = ret[2])
                  <=> (DatePortion(arg[1]) = DatePortion(arg[2])
                         /\ RoundedCoord(arg[1]) = RoundedCoord(arg[2])))

====
